---- MODULE Spec2Model ----
(***************************************************************************)
(* Model of DictionaryManager (src/dict_manager.py): the per-language FTS5 *)
(* tables, the rebuild from the key=text source files, and the ranked      *)
(* search that merges exact token matches with the optional fuzzy scan.    *)
(*                                                                         *)
(* Strings are sequences of one-character strings.  Ranks are integers in  *)
(* hundredths: the fuzzy rank -similarity is -partial_ratio, the literal 1 *)
(* of "rank-1" is 100, and an FTS5 bm25 rank is a strictly negative number *)
(* (FTS5 negates a score whose idf factor is clamped to be positive).      *)
(***************************************************************************)
EXTENDS Integers, Sequences, FiniteSets, TLC

\* ------------------------------------------------------------------------
\* Bounds of the model
\* ------------------------------------------------------------------------

\* `limit` arguments of search range over 0..MaxLimit
MaxLimit == 2

\* ------------------------------------------------------------------------
\* Characters and strings
\* ------------------------------------------------------------------------

NL == "\n"

Max(x, y) == IF x >= y THEN x ELSE y
Min(x, y) == IF x <= y THEN x ELSE y

\* str.lower() on the alphabet of the model
Lower(c) == IF c = "H" THEN "h" ELSE c
LowerStr(s) == [i \in 1..Len(s) |-> Lower(s[i])]

\* the characters of the alphabet in '\u4e00'..'\u9fff', each written as
\* its pinyin: "ni", "hao", "shi", "jie" are the four characters of the
\* greeting "hello world"
ChineseChars == {"ni", "hao", "shi", "jie"}

\* the letters and digits of the alphabet
IsLatin(c) == c \in {"a", "b", "d", "e", "h", "l", "o", "r", "w", "H",
                     "k", "1", "2", "3"}

\* characters the jieba word regex and the FTS5 unicode61 tokenizer keep
\* inside a token
IsAlnum(c) == IsLatin(c) \/ c \in ChineseChars
IsSpace(c) == c \in {" ", NL}

\* Python slice s[lo:hi] with 0-based, clipped indices
SliceFrom(s, lo, hi) == SubSeq(s, Max(lo, 0) + 1, Len(s))
Slice(s, lo, hi) == SubSeq(s, Max(lo, 0) + 1, Min(hi, Len(s)))

\* str.partition(sep): <<head, sep, tail>> around the first occurrence of
\* sep, or <<s, "", "">> when sep does not occur
FirstIndex(s, c) ==
    IF \E i \in 1..Len(s) : s[i] = c
    THEN CHOOSE i \in 1..Len(s) : s[i] = c /\ \A j \in 1..(i-1) : s[j] # c
    ELSE 0
Partition(s, c) ==
    LET p == FirstIndex(s, c)
    IN  IF p = 0 THEN <<s, <<>>, <<>>>>
        ELSE <<SubSeq(s, 1, p - 1), <<c>>, SubSeq(s, p + 1, Len(s))>>

\* str.replace(old, new) for a one-character old and new
ReplaceChar(s, old, new) == [i \in 1..Len(s) |-> IF s[i] = old THEN new ELSE s[i]]

\* str.strip(): drop leading and trailing whitespace
Strip(s) ==
    IF \A i \in 1..Len(s) : IsSpace(s[i]) THEN <<>>
    ELSE LET lo == CHOOSE i \in 1..Len(s) :
                      ~IsSpace(s[i]) /\ \A j \in 1..(i-1) : IsSpace(s[j])
             hi == CHOOSE i \in 1..Len(s) :
                      ~IsSpace(s[i]) /\ \A j \in (i+1)..Len(s) : IsSpace(s[j])
         IN  SubSeq(s, lo, hi)

\* ------------------------------------------------------------------------
\* Tokenizer: jieba.cut joined by ' ', then the FTS5 unicode61 tokenizer
\* ------------------------------------------------------------------------

\* the words of the jieba dictionary over the Chinese characters of the
\* alphabet
JiebaDict == {<<"ni", "hao">>, <<"shi", "jie">>}

\* the length of the dictionary word that starts s, 1 when there is none
DictWordLen(s) ==
    LET ns == {n \in 1..Len(s) : SubSeq(s, 1, n) \in JiebaDict}
    IN  IF ns = {} THEN 1 ELSE CHOOSE n \in ns : \A o \in ns : n >= o

\* jieba.cut: maximal runs of letters and digits are words, Chinese
\* characters are cut into dictionary words, every other character is a
\* piece of its own
RECURSIVE JiebaCut(_)
JiebaCut(s) ==
    IF s = <<>> THEN <<>>
    ELSE IF s[1] \in ChineseChars
         THEN <<SubSeq(s, 1, DictWordLen(s))>>
                 \o JiebaCut(SubSeq(s, DictWordLen(s) + 1, Len(s)))
    ELSE IF ~IsLatin(s[1]) THEN <<SubSeq(s, 1, 1)>> \o JiebaCut(Tail(s))
    ELSE LET n == CHOOSE k \in 1..Len(s) :
                     /\ \A i \in 1..k : IsLatin(s[i])
                     /\ (k = Len(s) \/ ~IsLatin(s[k+1]))
         IN  <<SubSeq(s, 1, n)>> \o JiebaCut(SubSeq(s, n + 1, Len(s)))

\* ' '.join(pieces)
RECURSIVE JoinSpace(_)
JoinSpace(ps) ==
    IF ps = <<>> THEN <<>>
    ELSE IF Len(ps) = 1 THEN ps[1]
    ELSE ps[1] \o <<" ">> \o JoinSpace(Tail(ps))

\* ' '.join(jieba.cut(text))
Segment(text) == JoinSpace(JiebaCut(text))

\* unicode61: the case-folded maximal alphanumeric runs of the content
RECURSIVE Unicode61(_)
Unicode61(s) ==
    IF s = <<>> THEN <<>>
    ELSE IF ~IsAlnum(s[1]) THEN Unicode61(Tail(s))
    ELSE LET n == CHOOSE k \in 1..Len(s) :
                     /\ \A i \in 1..k : IsAlnum(s[i])
                     /\ (k = Len(s) \/ ~IsAlnum(s[k+1]))
         IN  <<LowerStr(SubSeq(s, 1, n))>> \o Unicode61(SubSeq(s, n + 1, Len(s)))

\* ------------------------------------------------------------------------
\* Fuzzy matcher: fuzz.partial_ratio over difflib.SequenceMatcher
\* ------------------------------------------------------------------------

\* SequenceMatcher.find_longest_match(alo, ahi, blo, bhi), 0-based: the
\* matching blocks <<i, j, k>> of a[alo:ahi] and b[blo:bhi]
MatchCands(a, alo, ahi, b, blo, bhi) ==
    {c \in (alo..(ahi-1)) \X (blo..(bhi-1)) \X (1..(ahi-alo)) :
        /\ c[1] + c[3] <= ahi
        /\ c[2] + c[3] <= bhi
        /\ \A d \in 0..(c[3]-1) : a[c[1] + d + 1] = b[c[2] + d + 1]}

\* the longest block, and of those the one starting earliest in a, then in b
LongestMatch(a, alo, ahi, b, blo, bhi) ==
    LET cs == MatchCands(a, alo, ahi, b, blo, bhi)
    IN  CHOOSE c \in cs : \A o \in cs :
            \/ c[3] > o[3]
            \/ c[3] = o[3] /\ c[1] < o[1]
            \/ c[3] = o[3] /\ c[1] = o[1] /\ c[2] <= o[2]

\* SequenceMatcher.get_matching_blocks(): recurse left and right of the
\* longest match
RECURSIVE MatchingBlocks(_, _, _, _, _, _)
MatchingBlocks(a, alo, ahi, b, blo, bhi) ==
    IF alo >= ahi \/ blo >= bhi \/ MatchCands(a, alo, ahi, b, blo, bhi) = {}
    THEN {}
    ELSE LET m == LongestMatch(a, alo, ahi, b, blo, bhi)
         IN  {m} \cup MatchingBlocks(a, alo, m[1], b, blo, m[2])
                 \cup MatchingBlocks(a, m[1] + m[3], ahi, b, m[2] + m[3], bhi)

RECURSIVE SumLen(_)
SumLen(bs) ==
    IF bs = {} THEN 0
    ELSE LET x == CHOOSE y \in bs : TRUE IN x[3] + SumLen(bs \ {x})

\* round(n / d) to the nearest integer, halves to the even one
RoundHalfEven(n, d) ==
    LET q == n \div d
        r == n % d
    IN  IF 2 * r > d THEN q + 1
        ELSE IF 2 * r = d THEN q + (q % 2)
        ELSE q

\* int(round(100 * SequenceMatcher(None, a, b).ratio()))
RatioPercent(a, b) ==
    IF Len(a) + Len(b) = 0 THEN 100
    ELSE RoundHalfEven(200 * SumLen(MatchingBlocks(a, 0, Len(a), b, 0, Len(b))),
                       Len(a) + Len(b))

RECURSIVE SetMax(_)
SetMax(S) ==
    LET x == CHOOSE y \in S : TRUE
    IN  IF S = {x} THEN x ELSE Max(x, SetMax(S \ {x}))

\* fuzz.partial_ratio(s1, s2): the best ratio of the shorter string against
\* the windows of the longer one that its matching blocks line up with
PartialRatio(s1, s2) ==
    IF Len(s1) = 0 \/ Len(s2) = 0 THEN 0
    ELSE LET shorter == IF Len(s1) <= Len(s2) THEN s1 ELSE s2
             longer  == IF Len(s1) <= Len(s2) THEN s2 ELSE s1
             blocks  == MatchingBlocks(shorter, 0, Len(shorter), longer, 0, Len(longer))
                          \cup {<<Len(shorter), Len(longer), 0>>}
             starts  == {Max(b[2] - b[1], 0) : b \in blocks}
         IN  SetMax({RatioPercent(shorter, Slice(longer, ls, ls + Len(shorter))) :
                        ls \in starts})

\* ------------------------------------------------------------------------
\* Universe: source lines, source files, keywords
\* ------------------------------------------------------------------------

\* lines of the source files, `<key>=<text>` with their line terminator
LineHelloWorld == <<"k", "1", "=", "H", "e", "l", "l", "o", " ", "w", "o", "r", "l", "d", NL>>
LineHelo       == <<"k", "2", "=", "h", "e", "l", "o", NL>>
LineDash       == <<"k", "3", "=", "a", "-", "b", NL>>
LineHello      == <<"k", "2", "=", "h", "e", "l", "l", "o", NL>>
LineWorld      == <<"k", "1", "=", "w", "o", "r", "l", "d", NL>>
LineGreet      == <<"g", "1", "=", "ni", "hao", "shi", "jie", NL>>

Langs == {"en", "cn", "rsui"}

\* an absent source file, an absent table
Missing == [exists |-> FALSE, lines |-> <<>>]
NoTable == [exists |-> FALSE, rows |-> <<>>]
FileOf(ls) == [exists |-> TRUE, lines |-> ls]
TableOf(rs) == [exists |-> TRUE, rows |-> rs]

\* the contents a language's source file can have (TEXT_FILE_DICT names
\* one file per language); the rsui file holds the key k2 on two lines
FileChoices ==
    [en   |-> {<<LineHelloWorld, LineHelo, LineDash>>, <<LineWorld, LineHello>>},
     cn   |-> {<<LineHello, LineDash, LineGreet>>},
     rsui |-> {<<LineHelo, LineHello>>}]

KwHello == <<"h", "e", "l", "l", "o">>
KwHelo  == <<"h", "e", "l", "o">>
KwDash  == <<"-">>
KwNihao == <<"ni", "hao">>
Keywords == {KwHello, KwHelo, KwDash, KwNihao}

\* the use_db arguments of search (the default first)
UseDbChoices == {<<"cn", "en">>, <<"en">>, <<"cn">>}

\* the max_length arguments of search: <<>> is None, <<m>> is the bound m
NoLength == <<>>
MaxLengthChoices == {NoLength, <<7>>}

\* ------------------------------------------------------------------------
\* State
\* ------------------------------------------------------------------------

VARIABLES
    used_text,    \* self.used_text: the enabled languages, in order
    files,        \* the source file of each language
    tables,       \* text_<lang>: its rows in rowid order
    pc,           \* "idle", or the call that has just run to its end
    args,         \* the arguments of that call
    exact,        \* search: `result` after the exact-match loop
    result,       \* search: `result` after the fuzzy loop
    result_dict,  \* search: the merged ranks, in insertion order
    ids,          \* search: the returned key sequence
    payload,      \* search: the returned key -> language -> snippet mapping
    exc,          \* <<>>, or the exception the call raised
    queries,      \* statements the call executed against the language tables
    text_id,      \* get_full_text: its text_id argument
    full_text,    \* get_full_text: the returned language -> escaped text mapping
    h_text,       \* highlight: its text argument
    h_keyword,    \* highlight: its keyword argument
    snippet,      \* highlight: the returned snippet
    rpc,          \* the refresh thread: where full_refresh stands
    txn,          \* the refresh thread's open transaction on a table
    seen,         \* the last table read of a search that runs beside a rebuild
    gens,         \* the generations committed to each table so far
    search_input,    \* the window: the text of the search box
    fuzzy_box,       \* the window: self.fuzzy_search, set by the checkbox
    buttons,         \* the window: the buttons of self.buttons are enabled
    connections,     \* the window: connections of returnPressed to on_search
    search_results,  \* the window: self.search_results
    results_list,    \* the window: the items of self.results_list
    detail_display,  \* the window: which text self.detail_display shows
    gui,             \* the GUI thread: the handlers under way, innermost last
    threads,         \* the RefreshLocalThread objects in progress
    queued,          \* signals of the threads queued for the GUI thread
    notified         \* per rebuild: the handlers run for it so far

\* the variables of get_full_text
ft_vars == <<text_id, full_text>>

\* the variables of a direct call of highlight
hl_vars == <<h_text, h_keyword, snippet>>

\* the variables of a rebuild that runs in its own thread
conc_vars == <<rpc, txn, seen, gens>>

\* the variables of the window and of its refresh threads
gui_vars == <<search_input, fuzzy_box, buttons, connections, search_results,
              results_list, detail_display, gui, threads, queued, notified>>

vars == <<used_text, files, tables, pc, args, exact, result, result_dict,
          ids, payload, exc, queries, ft_vars, hl_vars, conc_vars, gui_vars>>

\* no refresh thread, no open transaction, no table read yet
RIdle == [at |-> "idle", i |-> 0, n |-> 0]
NoTxn == [open |-> FALSE, key |-> "", rows |-> <<>>]
NoRead == [kind |-> "", db |-> "", rows |-> <<>>, in_txn |-> FALSE]

NoQueries == [exact |-> 0, fuzzy |-> 0, fetch |-> 0]
NoExc == <<>>
NoArgs == [keyword |-> <<>>, limit |-> 0, use_db |-> <<>>, display_rsui |-> FALSE,
           max_length |-> NoLength, fuzzy_search |-> FALSE]

\* the empty mapping
EmptyMap == [k \in {} |-> {}]
Put(m, k, v) == [x \in (DOMAIN m) \cup {k} |-> IF x = k THEN v ELSE m[x]]

Range(s) == {s[i] : i \in 1..Len(s)}

\* the refresh threads the model follows at a time
MaxThreads == 2
ThreadIds == 1..MaxThreads

\* no handler has run for a rebuild
NoNotes == [finished |-> 0, error |-> 0]

\* DictionaryApp.__init__ and init_ui: the window as constructed; one
\* connection of returnPressed to on_search, every button enabled
InitWindow ==
    /\ search_input = <<>>
    /\ fuzzy_box = FALSE
    /\ buttons = TRUE
    /\ connections = 1
    /\ search_results = EmptyMap
    /\ results_list = <<>>
    /\ detail_display = ""
    /\ gui = <<>>
    /\ threads = [id \in ThreadIds |-> "none"]
    /\ queued = <<>>
    /\ notified = [id \in ThreadIds |-> NoNotes]

\* DictionaryManager.__init__: used_text by use_rsui
UsedTextOf(use_rsui) ==
    IF use_rsui THEN <<"en", "cn", "rsui">> ELSE <<"en", "cn">>

Init ==
    /\ \E use_rsui \in BOOLEAN : used_text = UsedTextOf(use_rsui)
    /\ files \in [Langs -> {Missing} \cup {FileOf(f) : f \in UNION {FileChoices[l] : l \in Langs}}]
    /\ \A l \in Langs : files[l].exists => files[l].lines \in FileChoices[l]
    /\ tables = [l \in Langs |-> NoTable]
    /\ pc = "idle"
    /\ args = NoArgs
    /\ exact = <<>>
    /\ result = <<>>
    /\ result_dict = <<>>
    /\ ids = <<>>
    /\ payload = EmptyMap
    /\ exc = NoExc
    /\ queries = NoQueries
    /\ text_id = <<>>
    /\ full_text = EmptyMap
    /\ h_text = <<>>
    /\ h_keyword = <<>>
    /\ snippet = <<>>
    /\ rpc = RIdle
    /\ txn = NoTxn
    /\ seen = NoRead
    /\ gens = [l \in Langs |-> {}]
    /\ InitWindow

\* ------------------------------------------------------------------------
\* Rebuild: create_db, refresh_db, full_refresh
\* ------------------------------------------------------------------------

\* refresh_db, the loop over file.readlines(): one (id, text, segmented)
\* per line
ParseLine(line) ==
    LET p == Partition(line, "=")
    IN  [text_id |-> p[1], raw_text |-> p[3], content |-> Segment(p[3])]

\* the lines of the universe and their tuples, tabulated
AllLines == UNION {Range(f) : f \in UNION {FileChoices[l] : l \in Langs}}
ParsedLines == [line \in AllLines |-> ParseLine(line)]
TextList(lines) == [i \in 1..Len(lines) |-> ParsedLines[lines[i]]]

\* every raw text a table can hold
RawTexts == {ParsedLines[line].raw_text : line \in AllLines}

\* DELETE FROM text_<key>
DeleteKeepRows(rows) == rows
DeleteAll(rows) == <<>>

\* INSERT OR REPLACE ... executemany: the FTS5 table has no unique column,
\* every tuple becomes a new row
InsertMany(rows, text_list) == rows \o text_list

\* create_db: CREATE VIRTUAL TABLE IF NOT EXISTS for every enabled language
CreateDb(tbls, used) ==
    [l \in Langs |-> IF l \in Range(used) /\ ~tbls[l].exists THEN TableOf(<<>>) ELSE tbls[l]]

\* refresh_db: the languages in order; the first missing file raises and
\* leaves the tables rebuilt so far.  Yields <<tables, exception>>.
RECURSIVE RefreshDb(_, _, _, _)
RefreshDb(tbls, fls, used, i) ==
    IF i > Len(used) THEN <<tbls, NoExc>>
    ELSE LET key == used[i]
         IN  IF ~fls[key].exists THEN <<tbls, <<"RuntimeError", key>>>>
             ELSE RefreshDb([tbls EXCEPT ![key] =
                                TableOf(InsertMany(DeleteAll(tbls[key].rows),
                                                   TextList(fls[key].lines)))],
                            fls, used, i + 1)

FullRefresh ==
    /\ pc = "idle"
    /\ LET r == RefreshDb(CreateDb(tables, used_text), files, used_text, 1)
       IN  /\ tables' = r[1]
           /\ exc' = r[2]
    /\ pc' = "refresh_done"
    /\ UNCHANGED <<used_text, files, args, exact, result, result_dict, ids,
                   payload, queries, ft_vars, hl_vars, conc_vars, gui_vars>>

\* full_refresh returns to its caller
RefreshReturn ==
    /\ pc = "refresh_done"
    /\ pc' = "idle"
    /\ exc' = NoExc
    /\ UNCHANGED <<used_text, files, tables, args, exact, result, result_dict,
                   ids, payload, queries, ft_vars, hl_vars, conc_vars,
                   gui_vars>>

\* the source files are edited or removed outside the program
WriteFile ==
    /\ pc = "idle"
    /\ \E l \in Langs : \E f \in FileChoices[l] :
          /\ files[l] # FileOf(f)
          /\ files' = [files EXCEPT ![l] = FileOf(f)]
    /\ UNCHANGED <<used_text, tables, pc, args, exact, result, result_dict,
                   ids, payload, exc, queries, ft_vars, hl_vars, conc_vars,
                   gui_vars>>

RemoveFile ==
    /\ pc = "idle"
    /\ \E l \in Langs :
          /\ files[l].exists
          /\ files' = [files EXCEPT ![l] = Missing]
    /\ UNCHANGED <<used_text, tables, pc, args, exact, result, result_dict,
                   ids, payload, exc, queries, ft_vars, hl_vars, conc_vars,
                   gui_vars>>

\* ------------------------------------------------------------------------
\* Highlighter: contains_chinese, highlight
\* ------------------------------------------------------------------------

\* self.display_length
DisplayLength == 100

ContainsChinese(text) == \E i \in 1..Len(text) : text[i] \in ChineseChars

\* html.escape(text), quote=True
EscapeChar(c) ==
    CASE c = "&"  -> <<"&", "a", "m", "p", ";">>
      [] c = "<"  -> <<"&", "l", "t", ";">>
      [] c = ">"  -> <<"&", "g", "t", ";">>
      [] c = "\"" -> <<"&", "q", "u", "o", "t", ";">>
      [] c = "'"  -> <<"&", "#", "x", "2", "7", ";">>
      [] OTHER    -> <<c>>
\* the escaped halves of the text, joined
RECURSIVE Escape(_)
Escape(text) ==
    IF text = <<>> THEN <<>>
    ELSE IF Len(text) = 1 THEN EscapeChar(text[1])
    ELSE Escape(SubSeq(text, 1, Len(text) \div 2))
            \o Escape(SubSeq(text, Len(text) \div 2 + 1, Len(text)))

OpenTag  == <<"<", "b", ">">>
CloseTag == <<"<", "/", "b", ">">>
Ellipsis == <<".", ".", ".">>

\* the pattern re.escape(keyword), re.IGNORECASE matches at position i
MatchAt(text, keyword, i) ==
    /\ i + Len(keyword) - 1 <= Len(text)
    /\ \A d \in 1..Len(keyword) : Lower(text[i + d - 1]) = Lower(keyword[d])

\* pattern.sub(lambda m: f'<b>{m.group()}</b>', text) from position i on:
\* leftmost non-overlapping matches; the empty pattern matches before
\* every character and at the end
RECURSIVE SubFrom(_, _, _)
SubFrom(text, keyword, i) ==
    IF keyword = <<>>
    THEN IF i > Len(text) THEN OpenTag \o CloseTag
         ELSE OpenTag \o CloseTag \o <<text[i]>> \o SubFrom(text, keyword, i + 1)
    ELSE LET at == {p \in i..Len(text) : MatchAt(text, keyword, p)}
         IN  IF at = {} THEN SubSeq(text, i, Len(text))
             ELSE LET p == CHOOSE x \in at : \A y \in at : x <= y
                  IN  SubSeq(text, i, p - 1)
                         \o OpenTag \o SubSeq(text, p, p + Len(keyword) - 1) \o CloseTag
                         \o SubFrom(text, keyword, p + Len(keyword))

TagAt(s, tag, i) == i + Len(tag) - 1 <= Len(s) /\ SubSeq(s, i, i + Len(tag) - 1) = tag

\* str.replace(tag, '')
RECURSIVE RemoveTag(_, _)
RemoveTag(s, tag) ==
    LET at == {p \in 1..Len(s) : TagAt(s, tag, p)}
    IN  IF at = {} THEN s
        ELSE LET p == CHOOSE x \in at : \A y \in at : x <= y
             IN  SubSeq(s, 1, p - 1) \o RemoveTag(SubSeq(s, p + Len(tag), Len(s)), tag)

\* re.match(r"(.*?)(<b>.*</b>)(.*?)", hl_text): '.' stops at a newline, the
\* first group is the shortest prefix, the second runs to the last </b>.
\* Yields <<>> for no match, else <<start, content>>.
TagMatch(hl_text) ==
    LET nl    == FirstIndex(hl_text, NL)
        line  == IF nl = 0 THEN hl_text ELSE SubSeq(hl_text, 1, nl - 1)
        opens == {i \in 1..Len(line) :
                     /\ TagAt(line, OpenTag, i)
                     /\ \E j \in (i + 3)..Len(line) : TagAt(line, CloseTag, j)}
    IN  IF opens = {} THEN <<>>
        ELSE LET i == CHOOSE x \in opens : \A y \in opens : x <= y
                 closes == {j \in (i + 3)..Len(line) : TagAt(line, CloseTag, j)}
                 j == CHOOSE x \in closes : \A y \in closes : x >= y
             IN  <<SubSeq(line, 1, i - 1), SubSeq(line, i, j + 3)>>

highlight(raw, keyword) ==
    LET display_length == IF ContainsChinese(raw) THEN DisplayLength \div 2
                          ELSE DisplayLength
        text    == Escape(raw)
        hl_text == SubFrom(text, keyword, 1)
        m       == TagMatch(hl_text)
    IN  IF Len(text) < display_length THEN hl_text
        ELSE IF m = <<>> THEN Slice(hl_text, 0, display_length) \o Ellipsis
        ELSE LET start == m[1]
                 raw_content == RemoveTag(RemoveTag(m[2], OpenTag), CloseTag)
             IN  IF Len(start) + Len(raw_content) > display_length
                 THEN IF Len(start) > display_length
                      THEN Slice(start, 0, display_length) \o Ellipsis
                      ELSE start \o OpenTag
                             \o Slice(raw_content, 0, display_length - Len(start))
                             \o CloseTag \o Ellipsis
                 ELSE Slice(hl_text, 0, display_length) \o Ellipsis

\* ------------------------------------------------------------------------
\* Search: the FTS5 queries, _fuzzy_search, search, __generate_result_sqlite
\* ------------------------------------------------------------------------

\* the default threshold of _fuzzy_search, in hundredths
Threshold == 60

\* the 1 of "rank-1", in hundredths
RankOne == 100

\* escape_fts5: the FTS5 special characters become spaces, then strip()
SpecialChars == {"\"", "-", "(", ")", "*", ":"}
escape_fts5(text) ==
    Strip([i \in 1..Len(text) |-> IF text[i] \in SpecialChars THEN " " ELSE text[i]])

\* seg_keyword, tabulated over the keywords of the universe
SegKeywordTable == [k \in Keywords |-> Segment(escape_fts5(k))]
SegKeyword(keyword) == SegKeywordTable[keyword]

\* the tokens FTS5 sees in a stored content and in a query string,
\* tabulated over the universe
Fts5Strings ==
    {ParsedLines[line].content : line \in AllLines}
        \cup {SegKeywordTable[k] : k \in Keywords}
Fts5TokensTable == [s \in Fts5Strings |-> Unicode61(s)]
Fts5Tokens(s) == Fts5TokensTable[s]

\* MATCH ?: a query string is barewords separated by whitespace; an empty
\* expression or any other character is "fts5: syntax error"
Fts5SyntaxError(q) ==
    \/ Fts5Tokens(q) = <<>>
    \/ \E i \in 1..Len(q) : ~IsAlnum(q[i]) /\ ~IsSpace(q[i])

\* content MATCH ?: the barewords are ANDed, a row matches when its
\* content holds every query token
Fts5MatchWhole(row, q) == Fts5Tokens(q) = Fts5Tokens(row.content)
Fts5Match(row, q) == Range(Fts5Tokens(q)) \subseteq Range(Fts5Tokens(row.content))

\* the rank column: bm25, better matches are more negative; modelled as
\* minus the number of occurrences of query tokens in the row
Bm25(row, q) ==
    LET ts == Fts5Tokens(row.content)
    IN  0 - Cardinality({i \in 1..Len(ts) : ts[i] \in Range(Fts5Tokens(q))})

\* list.sort(key=rank) / ORDER BY rank on pairs <<x, rank>>: ascending and
\* stable
InsertByRank(sorted, p) ==
    LET k == Cardinality({i \in 1..Len(sorted) : sorted[i][2] <= p[2]})
    IN  SubSeq(sorted, 1, k) \o <<p>> \o SubSeq(sorted, k + 1, Len(sorted))
RECURSIVE SortByRank(_)
SortByRank(ps) ==
    IF ps = <<>> THEN <<>>
    ELSE InsertByRank(SortByRank(SubSeq(ps, 1, Len(ps) - 1)), ps[Len(ps)])

\* the offset applied to the rank column in the SELECT list
ShiftNone(rank) == rank
ShiftRank(rank) == rank - RankOne

\* LENGTH(raw_text) < ?
LengthAny(row, max_length) == TRUE
LengthOk(row, max_length) == max_length = NoLength \/ Len(row.raw_text) < max_length[1]

\* SELECT text_id, rank-1 FROM text_<db> WHERE content MATCH ?
\*   [AND LENGTH(raw_text) < ?] ORDER BY rank LIMIT ?
ExactQuery(rows, q, max_length, limit) ==
    LET hits   == SelectSeq(rows, LAMBDA r : Fts5Match(r, q) /\ LengthOk(r, max_length))
        ranked == SortByRank([i \in 1..Len(hits) |-> <<hits[i], Bm25(hits[i], q)>>])
    IN  [i \in 1..Min(limit, Len(ranked)) |->
            <<ranked[i][1].text_id, ShiftRank(ranked[i][2])>>]

\* search, the first loop over use_db.  LIMIT 0 ends the statement before
\* the MATCH expression is parsed.
\* Yields [result, exc, n]: the pairs, the exception, the statements run.
RECURSIVE ExactLoop(_, _, _, _, _, _)
ExactLoop(tbls, use_db, q, max_length, limit, i) ==
    IF i > Len(use_db) THEN [result |-> <<>>, exc |-> NoExc, n |-> 0]
    ELSE LET db == use_db[i]
         IN  IF ~tbls[db].exists \/ (limit # 0 /\ Fts5SyntaxError(q))
             THEN [result |-> <<>>, exc |-> <<"OperationalError">>, n |-> 1]
             ELSE LET rest == ExactLoop(tbls, use_db, q, max_length, limit, i + 1)
                  IN  [result |-> ExactQuery(tbls[db].rows, q, max_length, limit)
                                     \o rest.result,
                       exc    |-> rest.exc,
                       n      |-> rest.n + 1]

\* fuzz.partial_ratio(keyword.lower(), raw_text.lower()), as int percent,
\* tabulated over the keywords and raw texts of the universe
SimilarityTable ==
    [k \in Keywords, t \in RawTexts |-> PartialRatio(LowerStr(k), LowerStr(t))]
Similarity(keyword, raw_text) == SimilarityTable[keyword, raw_text]

\* similarity >= threshold
AboveAlways(sim) == TRUE
AboveThreshold(sim) == sim >= Threshold

\* _fuzzy_search: the full scan of one table
_fuzzy_search(rows, keyword) ==
    LET hits == SelectSeq(rows, LAMBDA r : AboveThreshold(Similarity(keyword, r.raw_text)))
    IN  [i \in 1..Len(hits) |->
            <<hits[i].text_id, 0 - Similarity(keyword, hits[i].raw_text)>>]

\* search, the second loop over use_db
RECURSIVE FuzzyLoop(_, _, _, _)
FuzzyLoop(tbls, use_db, keyword, i) ==
    IF i > Len(use_db) THEN [result |-> <<>>, exc |-> NoExc, n |-> 0]
    ELSE LET db == use_db[i]
         IN  IF ~tbls[db].exists
             THEN [result |-> <<>>, exc |-> <<"OperationalError">>, n |-> 1]
             ELSE LET rest == FuzzyLoop(tbls, use_db, keyword, i + 1)
                  IN  [result |-> _fuzzy_search(tbls[db].rows, keyword) \o rest.result,
                       exc    |-> rest.exc,
                       n      |-> rest.n + 1]

\* result_dict: a new key is appended, a better rank replaces in place
Worse(old, new) == new > old
Better(old, new) == new < old
RECURSIVE MergeRanks(_, _)
MergeRanks(pairs, dict) ==
    IF pairs = <<>> THEN dict
    ELSE LET p == pairs[1]
             at == {i \in 1..Len(dict) : dict[i][1] = p[1]}
         IN  IF at = {} THEN MergeRanks(Tail(pairs), Append(dict, p))
             ELSE LET i == CHOOSE x \in at : TRUE
                  IN  IF Better(dict[i][2], p[2])
                      THEN MergeRanks(Tail(pairs), [dict EXCEPT ![i] = p])
                      ELSE MergeRanks(Tail(pairs), dict)

\* if fuzzy_search:
UseFuzzyAlways(fuzzy_search) == TRUE
UseFuzzy(fuzzy_search) == fuzzy_search

\* ids = [tid[0] for tid in weighted_ids][:limit]
TakeAll(tids, limit) == tids
TakeLimit(tids, limit) == Slice(tids, 0, limit)

\* self.highlight(raw_text.replace('\n', ' '), keyword), tabulated over
\* the raw texts and keywords of the universe
SnippetTable ==
    [t \in RawTexts, k \in Keywords |-> highlight(ReplaceChar(t, NL, " "), k)]
Snippet(raw_text, keyword) == SnippetTable[raw_text, keyword]

\* __generate_result_sqlite, the rows of one table: a later row of the
\* same text_id overwrites the snippet
RECURSIVE FetchRows(_, _, _, _, _)
FetchRows(rows, db, text_ids, keyword, ret_data) ==
    IF rows = <<>> THEN ret_data
    ELSE LET r == rows[1]
             old == IF r.text_id \in DOMAIN ret_data THEN ret_data[r.text_id] ELSE EmptyMap
         IN  IF r.text_id \in Range(text_ids)
             THEN FetchRows(Tail(rows), db, text_ids, keyword,
                            Put(ret_data, r.text_id,
                                Put(old, db, Snippet(r.raw_text, keyword))))
             ELSE FetchRows(Tail(rows), db, text_ids, keyword, ret_data)

RECURSIVE FetchLoop(_, _, _, _, _, _)
FetchLoop(tbls, use_db, text_ids, keyword, i, ret_data) ==
    IF i > Len(use_db) THEN [ret |-> ret_data, exc |-> NoExc, n |-> 0]
    ELSE LET db == use_db[i]
         IN  IF ~tbls[db].exists
             THEN [ret |-> EmptyMap, exc |-> <<"OperationalError">>, n |-> 1]
             ELSE LET rest == FetchLoop(tbls, use_db, text_ids, keyword, i + 1,
                                        FetchRows(tbls[db].rows, db, text_ids,
                                                  keyword, ret_data))
                  IN  [rest EXCEPT !.n = rest.n + 1]

GenerateResult(tbls, used, text_ids, keyword, display_rsui) ==
    LET use_db == IF display_rsui /\ "rsui" \in Range(used) THEN used
                  ELSE <<"en", "cn">>
    IN  IF text_ids = <<>> THEN [ret |-> EmptyMap, exc |-> NoExc, n |-> 0]
        ELSE FetchLoop(tbls, use_db, text_ids, keyword, 1, EmptyMap)

\* search from the merge on: result_dict, the sort, the cut to limit and
\* the payload.  `ex` and `fz` are the outcomes of the two loops.
SearchMerge(tbls, used, keyword, limit, display_rsui, ex, fz, dict) ==
    LET weighted_ids == SortByRank(dict)
        tids == TakeLimit([i \in 1..Len(weighted_ids) |-> weighted_ids[i][1]], limit)
        gen  == GenerateResult(tbls, used, tids, keyword, display_rsui)
    IN  [exact       |-> ex.result,
         result      |-> ex.result \o fz.result,
         result_dict |-> dict,
         ids         |-> IF gen.exc = NoExc THEN tids ELSE <<>>,
         payload     |-> gen.ret,
         exc         |-> gen.exc,
         queries     |-> [exact |-> ex.n, fuzzy |-> fz.n, fetch |-> gen.n]]

\* an exception of one of the two loops leaves search at once
SearchRaise(ex, fz) ==
    [exact       |-> ex.result,
     result      |-> ex.result,
     result_dict |-> <<>>,
     ids         |-> <<>>,
     payload     |-> EmptyMap,
     exc         |-> IF ex.exc # NoExc THEN ex.exc ELSE fz.exc,
     queries     |-> [exact |-> ex.n, fuzzy |-> fz.n, fetch |-> 0]]

\* search after the exact-match loop: the fuzzy loop, when requested
SearchFuzzy(tbls, used, keyword, limit, use_db, display_rsui, fuzzy_search, ex, fz) ==
    IF ex.exc # NoExc \/ fz.exc # NoExc THEN SearchRaise(ex, fz)
    ELSE SearchMerge(tbls, used, keyword, limit, display_rsui, ex, fz,
                     MergeRanks(ex.result \o fz.result, <<>>))

NoFuzzy == [result |-> <<>>, exc |-> NoExc, n |-> 0]

\* the body of search up to its return statement
SearchCall(tbls, used, keyword, limit, use_db, display_rsui, max_length, fuzzy_search) ==
    LET ex == ExactLoop(tbls, use_db, SegKeyword(keyword), max_length, limit, 1)
    IN  SearchFuzzy(tbls, used, keyword, limit, use_db, display_rsui, fuzzy_search, ex,
                    IF UseFuzzy(fuzzy_search) /\ ex.exc = NoExc
                    THEN FuzzyLoop(tbls, use_db, keyword, 1)
                    ELSE NoFuzzy)

\* search(keyword, limit, use_db, display_rsui, max_length, fuzzy_search)
Search ==
    /\ pc = "idle"
    /\ \E keyword \in Keywords, limit \in 0..MaxLimit, use_db \in UseDbChoices,
          display_rsui \in BOOLEAN, max_length \in MaxLengthChoices,
          fuzzy_search \in BOOLEAN :
        \E r \in {SearchCall(tables, used_text, keyword, limit, use_db,
                             display_rsui, max_length, fuzzy_search)} :
            /\ args' = [keyword |-> keyword, limit |-> limit, use_db |-> use_db,
                        display_rsui |-> display_rsui, max_length |-> max_length,
                        fuzzy_search |-> fuzzy_search]
            /\ exact' = r.exact
            /\ result' = r.result
            /\ result_dict' = r.result_dict
            /\ ids' = r.ids
            /\ payload' = r.payload
            /\ exc' = r.exc
            /\ queries' = r.queries
    /\ pc' = "search_done"
    /\ UNCHANGED <<used_text, files, tables, ft_vars, hl_vars, conc_vars,
                   gui_vars>>

\* search returns to its caller, its locals are gone
SearchReturn ==
    /\ pc = "search_done"
    /\ pc' = "idle"
    /\ args' = NoArgs
    /\ exact' = <<>>
    /\ result' = <<>>
    /\ result_dict' = <<>>
    /\ ids' = <<>>
    /\ payload' = EmptyMap
    /\ exc' = NoExc
    /\ queries' = NoQueries
    /\ UNCHANGED <<used_text, files, tables, ft_vars, hl_vars, conc_vars,
                   gui_vars>>

\* ------------------------------------------------------------------------
\* get_full_text
\* ------------------------------------------------------------------------

\* the keys of the universe
TextIds == {ParsedLines[line].text_id : line \in AllLines}

\* cursor.fetchone() of SELECT raw_text FROM text_<db> WHERE text_id = ?:
\* the first row of that key in rowid order, <<>> (None) when there is none
FetchOne(rows, tid) ==
    LET at == {i \in 1..Len(rows) : rows[i].text_id = tid}
    IN  IF at = {} THEN <<>>
        ELSE <<rows[CHOOSE i \in at : \A j \in at : i <= j].raw_text>>

\* ret_data[db] = escape(cursor.fetchone()[0]): subscripting None raises
\* TypeError
StoreFirst(ret, db, row) ==
    IF row = <<>> THEN [ret |-> EmptyMap, exc |-> <<"TypeError">>]
    ELSE [ret |-> Put(ret, db, Escape(row[1])), exc |-> NoExc]

\* get_full_text, the loop over self.used_text.  Yields [ret, exc].
RECURSIVE FullTextLoop(_, _, _, _, _)
FullTextLoop(tbls, used, tid, i, ret) ==
    IF i > Len(used) THEN [ret |-> ret, exc |-> NoExc]
    ELSE IF ~tbls[used[i]].exists
         THEN [ret |-> EmptyMap, exc |-> <<"OperationalError">>]
    ELSE \* one statement per language
         LET st == StoreFirst(ret, used[i], FetchOne(tbls[used[i]].rows, tid))
         IN  IF st.exc # NoExc THEN st
             ELSE FullTextLoop(tbls, used, tid, i + 1, st.ret)

\* get_full_text(text_id)
GetFullText ==
    /\ pc = "idle"
    /\ \E tid \in TextIds :
        \E r \in {FullTextLoop(tables, used_text, tid, 1, EmptyMap)} :
            /\ text_id' = tid
            /\ full_text' = r.ret
            /\ exc' = r.exc
    /\ pc' = "full_text_done"
    /\ UNCHANGED <<used_text, files, tables, args, exact, result, result_dict,
                   ids, payload, queries, hl_vars, conc_vars, gui_vars>>

\* get_full_text returns to its caller
GetFullTextReturn ==
    /\ pc = "full_text_done"
    /\ pc' = "idle"
    /\ text_id' = <<>>
    /\ full_text' = EmptyMap
    /\ exc' = NoExc
    /\ UNCHANGED <<used_text, files, tables, args, exact, result, result_dict,
                   ids, payload, queries, hl_vars, conc_vars, gui_vars>>

Next ==
    \/ FullRefresh
    \/ RefreshReturn
    \/ WriteFile
    \/ RemoveFile
    \/ Search
    \/ SearchReturn
    \/ GetFullText
    \/ GetFullTextReturn

Spec == Init /\ [][Next]_vars

\* ------------------------------------------------------------------------
\* highlight called on its own: the arguments are drawn at the start
\* ------------------------------------------------------------------------

\* n times the character c
Rep(c, n) == [i \in 1..n |-> c]

\* the word the texts hold, and the keywords: two that match it whatever
\* the case, and the markup character '<'
HlWord == <<"H", "e", "l", "l", "o">>
KwHe == <<"h", "e">>
KwLt == <<"<">>
HlKeywords == {KwHe, KwHello, KwLt}

\* the characters that fill a text around the word: a letter, a character
\* that html.escape turns into four, a Chinese character
HlFillers == {"a", "<", "ni"}

\* the lengths of the filling before the word, around the display budget
\* of the escaped text
PrefixLens(f) ==
    IF f = "a" THEN {0} \cup ((DisplayLength - 6)..(DisplayLength + 1))
    ELSE IF f = "<" THEN {1, DisplayLength \div 4 - 1, DisplayLength \div 4}
    ELSE {1, DisplayLength \div 2 - 4, DisplayLength \div 2, DisplayLength \div 2 + 1}

\* the lengths of the filling after the word
SuffixLens == {0, 2, DisplayLength}

\* the text arguments: filling, the word, filling, and the word in lower
\* case once more or not
HlTexts ==
    {Rep(f[1], f[2]) \o HlWord \o Rep(f[1], m) \o w :
        f \in UNION {{<<c, n>> : n \in PrefixLens(c)} : c \in HlFillers},
        m \in SuffixLens, w \in {<<>>, KwHello}}

InitHl ==
    /\ used_text = UsedTextOf(FALSE)
    /\ files = [l \in Langs |-> Missing]
    /\ tables = [l \in Langs |-> NoTable]
    /\ pc = "idle"
    /\ args = NoArgs
    /\ exact = <<>>
    /\ result = <<>>
    /\ result_dict = <<>>
    /\ ids = <<>>
    /\ payload = EmptyMap
    /\ exc = NoExc
    /\ queries = NoQueries
    /\ text_id = <<>>
    /\ full_text = EmptyMap
    /\ h_text \in HlTexts
    /\ h_keyword \in HlKeywords
    /\ snippet = <<>>
    /\ rpc = RIdle
    /\ txn = NoTxn
    /\ seen = NoRead
    /\ gens = [l \in Langs |-> {}]
    /\ InitWindow

\* highlight(text, keyword)
Highlight ==
    /\ pc = "idle"
    /\ snippet' = highlight(h_text, h_keyword)
    /\ pc' = "highlight_done"
    /\ UNCHANGED <<used_text, files, tables, args, exact, result, result_dict,
                   ids, payload, exc, queries, ft_vars, h_text, h_keyword,
                   conc_vars, gui_vars>>

\* highlight returns to its caller
HighlightReturn ==
    /\ pc = "highlight_done"
    /\ snippet' = <<>>
    /\ pc' = "idle"
    /\ UNCHANGED <<used_text, files, tables, args, exact, result, result_dict,
                   ids, payload, exc, queries, ft_vars, h_text, h_keyword,
                   conc_vars, gui_vars>>

NextHl ==
    \/ Highlight
    \/ HighlightReturn

SpecHl == InitHl /\ [][NextHl]_vars

\* ------------------------------------------------------------------------
\* A search that runs beside a rebuild: full_refresh in its own thread
\* (RefreshLocalThread), statement by statement, and search in the caller's
\* thread, one table read at a time
\* ------------------------------------------------------------------------

\* the keywords searched for beside a rebuild
ConcKeywords == {KwHello, KwHelo}

\* what a statement on another connection reads of text_<db>: the
\* committed table; the rows of a transaction are private to its
\* connection until COMMIT
ReadUncommitted(tbls, tx, db) ==
    IF tx.open /\ tx.key = db THEN TableOf(tx.rows) ELSE tbls[db]
ReadCommitted(tbls, tx, db) == tbls[db]

\* a table read, as kept in `seen`
ReadOf(kind, db, t) ==
    [kind |-> kind, db |-> db, rows |-> t.rows, in_txn |-> txn.open /\ txn.key = db]

\* the tables hold an earlier rebuild of some source files, the files are
\* what the next rebuild will read
InitConc ==
    /\ \E use_rsui \in BOOLEAN : used_text = UsedTextOf(use_rsui)
    /\ files \in [Langs -> {Missing} \cup {FileOf(f) : f \in UNION {FileChoices[l] : l \in Langs}}]
    /\ \A l \in Langs : files[l].exists => files[l].lines \in FileChoices[l]
    /\ files["en"].exists /\ files["rsui"].exists
    /\ tables \in [Langs -> {NoTable} \cup {TableOf(TextList(f)) : f \in UNION {FileChoices[l] : l \in Langs}}]
    /\ \A l \in Langs :
          IF l \in Range(used_text)
          THEN \E f \in FileChoices[l] : tables[l] = TableOf(TextList(f))
          ELSE tables[l] = NoTable
    /\ pc = "idle"
    /\ args = NoArgs
    /\ exact = <<>>
    /\ result = <<>>
    /\ result_dict = <<>>
    /\ ids = <<>>
    /\ payload = EmptyMap
    /\ exc = NoExc
    /\ queries = NoQueries
    /\ text_id = <<>>
    /\ full_text = EmptyMap
    /\ h_text = <<>>
    /\ h_keyword = <<>>
    /\ snippet = <<>>
    /\ rpc = RIdle
    /\ txn = NoTxn
    /\ seen = NoRead
    /\ gens = [l \in Langs |-> IF tables[l].exists THEN {tables[l].rows} ELSE {}]
    /\ InitWindow

\* the variables the refresh thread leaves alone
search_vars == <<pc, args, exact, result, result_dict, ids, payload, exc, queries, seen>>

\* RefreshLocalThread.run calls full_refresh: create_db
RefreshStart ==
    /\ rpc.at = "idle"
    /\ tables' = CreateDb(tables, used_text)
    /\ gens' = [l \in Langs |->
                   IF ~tables[l].exists /\ tables'[l].exists THEN gens[l] \cup {<<>>}
                   ELSE gens[l]]
    /\ rpc' = [at |-> "check", i |-> 1, n |-> 0]
    /\ UNCHANGED <<used_text, files, txn, search_vars, ft_vars, hl_vars,
                   gui_vars>>

\* refresh_db, the head of the loop: the next language, its file is
\* there or RuntimeError is raised; the lines are read
RefreshCheck ==
    /\ rpc.at = "check"
    /\ rpc' = IF rpc.i > Len(used_text) THEN [rpc EXCEPT !.at = "done"]
              ELSE IF ~files[used_text[rpc.i]].exists THEN [rpc EXCEPT !.at = "failed"]
              ELSE [rpc EXCEPT !.at = "delete"]
    /\ UNCHANGED <<used_text, files, tables, txn, gens, search_vars, ft_vars, hl_vars,
                   gui_vars>>

\* cursor.execute("DELETE FROM text_<key>") opens the transaction of the
\* connection
RefreshDelete ==
    /\ rpc.at = "delete"
    /\ txn' = [open |-> TRUE, key |-> used_text[rpc.i],
               rows |-> DeleteAll(tables[used_text[rpc.i]].rows)]
    /\ rpc' = [rpc EXCEPT !.at = IF files[used_text[rpc.i]].lines = <<>>
                                 THEN "commit" ELSE "insert"]
    /\ UNCHANGED <<used_text, files, tables, gens, search_vars, ft_vars, hl_vars,
                   gui_vars>>

\* cursor.executemany(INSERT OR REPLACE ...): the next tuple of text_list
RefreshInsert ==
    /\ rpc.at = "insert"
    /\ txn' = [txn EXCEPT !.rows =
                  InsertMany(@, <<TextList(files[txn.key].lines)[rpc.n + 1]>>)]
    /\ rpc' = [rpc EXCEPT !.n = @ + 1,
                          !.at = IF rpc.n + 1 = Len(files[txn.key].lines)
                                 THEN "commit" ELSE "insert"]
    /\ UNCHANGED <<used_text, files, tables, gens, search_vars, ft_vars, hl_vars,
                   gui_vars>>

\* the end of `with sqlite3.connect(...) as conn`: COMMIT
RefreshCommit ==
    /\ rpc.at = "commit"
    /\ tables' = [tables EXCEPT ![txn.key] = TableOf(txn.rows)]
    /\ gens' = [gens EXCEPT ![txn.key] = @ \cup {TextList(files[txn.key].lines)}]
    /\ txn' = NoTxn
    /\ rpc' = [at |-> "check", i |-> rpc.i + 1, n |-> 0]
    /\ UNCHANGED <<used_text, files, search_vars, ft_vars, hl_vars, gui_vars>>

\* full_refresh has returned or raised, the thread ends
RefreshEnd ==
    /\ rpc.at \in {"done", "failed"}
    /\ rpc' = RIdle
    /\ UNCHANGED <<used_text, files, tables, txn, gens, search_vars, ft_vars, hl_vars,
                   gui_vars>>

\* search(keyword, limit, fuzzy_search=...) is called
ConcSearchStart ==
    /\ pc = "idle"
    /\ \E keyword \in ConcKeywords, fuzzy_search \in BOOLEAN :
          args' = [keyword |-> keyword, limit |-> MaxLimit, use_db |-> <<"cn", "en">>,
                   display_rsui |-> FALSE, max_length |-> NoLength,
                   fuzzy_search |-> fuzzy_search]
    /\ pc' = "exact"
    /\ UNCHANGED <<used_text, files, tables, exact, result, result_dict, ids,
                   payload, exc, queries, ft_vars, hl_vars, rpc, txn, seen, gens,
                   gui_vars>>

\* search, one turn of the first loop: the exact query of one table
ConcExact ==
    /\ pc = "exact"
    /\ \E db \in {args.use_db[queries.exact + 1]} :
        \E t \in {ReadCommitted(tables, txn, db)} :
            /\ seen' = ReadOf("exact", db, t)
            /\ queries' = [queries EXCEPT !.exact = @ + 1]
            /\ IF ~t.exists \/ Fts5SyntaxError(SegKeyword(args.keyword))
               THEN /\ exc' = <<"OperationalError">>
                    /\ pc' = "search_done"
                    /\ UNCHANGED <<exact, result>>
               ELSE /\ exact' = exact \o ExactQuery(t.rows, SegKeyword(args.keyword),
                                                    args.max_length, args.limit)
                    /\ result' = exact'
                    /\ pc' = IF queries.exact + 1 < Len(args.use_db) THEN "exact"
                             ELSE IF UseFuzzy(args.fuzzy_search) THEN "fuzzy"
                             ELSE "merge"
                    /\ UNCHANGED exc
    /\ UNCHANGED <<used_text, files, tables, args, result_dict, ids, payload,
                   ft_vars, hl_vars, rpc, txn, gens, gui_vars>>

\* search, one turn of the second loop: _fuzzy_search of one table
ConcFuzzy ==
    /\ pc = "fuzzy"
    /\ \E db \in {args.use_db[queries.fuzzy + 1]} :
        \E t \in {ReadCommitted(tables, txn, db)} :
            /\ seen' = ReadOf("fuzzy", db, t)
            /\ queries' = [queries EXCEPT !.fuzzy = @ + 1]
            /\ IF ~t.exists
               THEN /\ exc' = <<"OperationalError">>
                    /\ pc' = "search_done"
                    /\ UNCHANGED result
               ELSE /\ result' = result \o _fuzzy_search(t.rows, args.keyword)
                    /\ pc' = IF queries.fuzzy + 1 < Len(args.use_db) THEN "fuzzy"
                             ELSE "merge"
                    /\ UNCHANGED exc
    /\ UNCHANGED <<used_text, files, tables, args, exact, result_dict, ids, payload,
                   ft_vars, hl_vars, rpc, txn, gens, gui_vars>>

\* search: result_dict, the sort and the cut to limit
ConcMerge ==
    /\ pc = "merge"
    /\ result_dict' = MergeRanks(result, <<>>)
    /\ \E weighted_ids \in {SortByRank(result_dict')} :
          ids' = TakeLimit([i \in 1..Len(weighted_ids) |-> weighted_ids[i][1]],
                           args.limit)
    /\ pc' = IF ids' = <<>> THEN "search_done" ELSE "fetch"
    /\ UNCHANGED <<used_text, files, tables, args, exact, result, payload, exc,
                   queries, ft_vars, hl_vars, conc_vars, gui_vars>>

\* __generate_result_sqlite, one turn of its loop: the rows of one table
ConcFetch ==
    /\ pc = "fetch"
    /\ \E use_db \in {IF args.display_rsui /\ "rsui" \in Range(used_text)
                       THEN used_text ELSE <<"en", "cn">>} :
        \E t \in {ReadCommitted(tables, txn, use_db[queries.fetch + 1])} :
            /\ seen' = ReadOf("fetch", use_db[queries.fetch + 1], t)
            /\ queries' = [queries EXCEPT !.fetch = @ + 1]
            /\ IF ~t.exists
               THEN /\ exc' = <<"OperationalError">>
                    /\ ids' = <<>>
                    /\ payload' = EmptyMap
                    /\ pc' = "search_done"
               ELSE /\ payload' = FetchRows(t.rows, use_db[queries.fetch + 1], ids,
                                            args.keyword, payload)
                    /\ pc' = IF queries.fetch + 1 < Len(use_db) THEN "fetch"
                             ELSE "search_done"
                    /\ UNCHANGED <<exc, ids>>
    /\ UNCHANGED <<used_text, files, tables, args, exact, result, result_dict,
                   ft_vars, hl_vars, rpc, txn, gens, gui_vars>>

NextConc ==
    \/ RefreshStart
    \/ RefreshCheck
    \/ RefreshDelete
    \/ RefreshInsert
    \/ RefreshCommit
    \/ RefreshEnd
    \/ ConcSearchStart
    \/ ConcExact
    \/ ConcFuzzy
    \/ ConcMerge
    \/ ConcFetch
    \/ SearchReturn

SpecConc == InitConc /\ [][NextConc]_vars

\* ------------------------------------------------------------------------
\* Properties of search
\* ------------------------------------------------------------------------

\* a search call has returned (it did not raise)
SearchReturned == pc = "search_done" /\ exc = NoExc

\* the pairs the fuzzy loop added to `result`
FuzzyPart == SubSeq(result, Len(exact) + 1, Len(result))

ExactKeys == {exact[i][1] : i \in 1..Len(exact)}
FuzzyKeys == {FuzzyPart[i][1] : i \in 1..Len(FuzzyPart)}
ResultKeys == {result[i][1] : i \in 1..Len(result)}

\* the best rank collected for a key
BestRank(k) ==
    LET rs == {result[i][2] : i \in {j \in 1..Len(result) : result[j][1] = k}}
    IN  CHOOSE r \in rs : \A o \in rs : r <= o

\* the rows of the requested tables
RequestedRows == UNION {Range(tables[db].rows) : db \in Range(args.use_db)}

\* the row holds every token of the sanitized, segmented keyword
TokenMatch(row, keyword) ==
    LET qs == Range(Unicode61(Segment(escape_fts5(keyword))))
    IN  qs # {} /\ qs \subseteq Range(Unicode61(row.content))

\* C1: in a fuzzy-enabled search every shifted exact rank is strictly
\* smaller than every fuzzy rank, every fuzzy rank lies in [-1, -0.6], and
\* in the returned sequence every key with an exact match precedes every
\* key found only by the fuzzy scan.
C1_ExactBeforeFuzzy ==
    (SearchReturned /\ args.fuzzy_search) =>
        /\ \A i \in 1..Len(exact), j \in 1..Len(FuzzyPart) :
              exact[i][2] < FuzzyPart[j][2]
        /\ \A j \in 1..Len(FuzzyPart) :
              FuzzyPart[j][2] >= 0 - RankOne /\ FuzzyPart[j][2] <= 0 - Threshold
        /\ \A i, j \in 1..Len(ids) :
              (ids[i] \in ExactKeys /\ ids[j] \notin ExactKeys) => i < j

\* a fuzzy search returned an exactly matched key and a fuzzy-only key
C1_Witness ==
    /\ SearchReturned /\ args.fuzzy_search
    /\ \E i, j \in 1..Len(ids) :
          ids[i] \in ExactKeys /\ ids[j] \in FuzzyKeys \ ExactKeys

\* C2: a key found both by an exact query and by the fuzzy scan of one
\* search call is merged under its (best) shifted exact rank, never under
\* a fuzzy rank.
C2_BothWaysKeepsExactRank ==
    SearchReturned =>
        \A d \in 1..Len(result_dict) :
            LET k  == result_dict[d][1]
                es == {exact[i][2] : i \in {j \in 1..Len(exact) : exact[j][1] = k}}
            IN  (k \in ExactKeys /\ k \in FuzzyKeys) =>
                    /\ result_dict[d][2] \in es
                    /\ \A e \in es : result_dict[d][2] <= e

\* a key was found by the exact query of one table and the fuzzy scan of
\* another
C2_Witness ==
    /\ SearchReturned
    /\ \E k \in ExactKeys \cap FuzzyKeys :
          /\ \E r \in Range(tables["en"].rows) :
                r.text_id = k /\ ~TokenMatch(r, args.keyword)
                    /\ Similarity(args.keyword, r.raw_text) >= Threshold
          /\ \E r \in Range(tables["cn"].rows) :
                r.text_id = k /\ TokenMatch(r, args.keyword)
          /\ k \in Range(ids)
    /\ Len(args.use_db) = 2

\* C3: the returned sequence is the reference result: the collected keys
\* under their minimum rank, in non-decreasing rank order, cut to the
\* first `limit`; no key twice.
C3_ReferenceResult ==
    SearchReturned =>
        /\ Range(ids) \subseteq ResultKeys
        /\ \A i, j \in 1..Len(ids) : i # j => ids[i] # ids[j]
        /\ Len(ids) = Min(args.limit, Cardinality(ResultKeys))
        /\ \A i, j \in 1..Len(ids) : i < j => BestRank(ids[i]) <= BestRank(ids[j])
        /\ \A k \in ResultKeys \ Range(ids) :
              \A i \in 1..Len(ids) : BestRank(ids[i]) <= BestRank(k)
        /\ {result_dict[d] : d \in 1..Len(result_dict)} =
              {<<k, BestRank(k)>> : k \in ResultKeys}

\* a search that merged a key found twice and dropped a key at the limit
C3_Witness ==
    /\ SearchReturned
    /\ Len(ids) >= 1
    /\ Cardinality(ResultKeys) > args.limit
    /\ Len(result) > Cardinality(ResultKeys)

\* C4: search(k, limit=0) returns an empty sequence and an empty payload
\* and executes no statement against any language table.
C4_LimitZeroNoQueries ==
    (SearchReturned /\ args.limit = 0) =>
        /\ ids = <<>>
        /\ payload = EmptyMap
        /\ queries = NoQueries

\* C5: with fuzzy off only keys of token-matching entries of the requested
\* tables are returned.
C5_FuzzyOffOnlyExact ==
    (SearchReturned /\ ~args.fuzzy_search) =>
        \A i \in 1..Len(ids) :
            \E r \in RequestedRows : r.text_id = ids[i] /\ TokenMatch(r, args.keyword)

\* fuzzy off, a requested entry similar to the keyword but without a token
\* match, its key not returned
C5_Witness ==
    /\ SearchReturned /\ ~args.fuzzy_search /\ args.limit > 0
    /\ \E r \in RequestedRows :
          /\ Similarity(args.keyword, r.raw_text) >= Threshold
          /\ ~TokenMatch(r, args.keyword)
          /\ r.text_id \notin Range(ids)

\* C6: with fuzzy on, exactly the requested entries of similarity >= 0.6
\* are collected, each with rank -similarity in [-1, -0.6], and every such
\* key is returned when the merged keys fit the limit.
C6_FuzzyCandidates ==
    (SearchReturned /\ args.fuzzy_search) =>
        /\ \A r \in RequestedRows :
              Similarity(args.keyword, r.raw_text) >= Threshold =>
                  <<r.text_id, 0 - Similarity(args.keyword, r.raw_text)>>
                      \in Range(FuzzyPart)
        /\ \A j \in 1..Len(FuzzyPart) :
              /\ FuzzyPart[j][2] >= 0 - RankOne /\ FuzzyPart[j][2] <= 0 - Threshold
              /\ \E r \in RequestedRows :
                    /\ r.text_id = FuzzyPart[j][1]
                    /\ Similarity(args.keyword, r.raw_text) >= Threshold
                    /\ FuzzyPart[j][2] = 0 - Similarity(args.keyword, r.raw_text)
        /\ Cardinality(ResultKeys) <= args.limit => FuzzyKeys \subseteq Range(ids)

\* fuzzy on: an entry without a token match is returned for its
\* similarity, another requested entry stays below the threshold
C6_Witness ==
    /\ SearchReturned /\ args.fuzzy_search
    /\ \E r \in RequestedRows :
          /\ ~TokenMatch(r, args.keyword)
          /\ Similarity(args.keyword, r.raw_text) >= Threshold
          /\ Similarity(args.keyword, r.raw_text) < RankOne
          /\ r.text_id \in Range(ids) \ ExactKeys
    /\ \E r \in RequestedRows : Similarity(args.keyword, r.raw_text) < Threshold

\* C7: with fuzzy off and max_length = m every returned key has a
\* token-matching entry of raw text length < m in a requested table.
C7_MaxLengthFilters ==
    (SearchReturned /\ ~args.fuzzy_search /\ args.max_length # NoLength) =>
        \A i \in 1..Len(ids) :
            \E r \in RequestedRows :
                /\ r.text_id = ids[i]
                /\ TokenMatch(r, args.keyword)
                /\ Len(r.raw_text) < args.max_length[1]

\* a matching entry at or over the bound is left out while a shorter one
\* is returned
C7_Witness ==
    /\ SearchReturned /\ ~args.fuzzy_search /\ args.max_length # NoLength
    /\ Len(ids) >= 1
    /\ \E r \in RequestedRows :
          /\ TokenMatch(r, args.keyword)
          /\ Len(r.raw_text) >= args.max_length[1]
          /\ r.text_id \notin Range(ids)

\* C8: a keyword that is empty after sanitization makes search return an
\* empty sequence and an empty payload without raising.
C8_SanitizedEmptyDegrades ==
    (/\ pc = "search_done"
     /\ escape_fts5(args.keyword) = <<>>
     /\ \A db \in Range(args.use_db) : tables[db].exists) =>
        /\ exc = NoExc
        /\ ids = <<>>
        /\ payload = EmptyMap

\* ------------------------------------------------------------------------
\* Properties of the rebuild
\* ------------------------------------------------------------------------

Enabled == Range(used_text)

\* C9: full_refresh raises, naming the language, exactly when an enabled
\* language's source file is missing; otherwise every enabled table holds
\* one entry per line of its source file, in order, and nothing else.
C9_RefreshOutcome ==
    pc = "refresh_done" =>
        /\ exc # NoExc <=> \E l \in Enabled : ~files[l].exists
        /\ exc # NoExc =>
              /\ exc[1] = "RuntimeError"
              /\ exc[2] \in Enabled /\ ~files[exc[2]].exists
        /\ exc = NoExc =>
              \A l \in Enabled :
                  /\ tables[l].exists
                  /\ Len(tables[l].rows) = Len(files[l].lines)
                  /\ \A i \in 1..Len(tables[l].rows) :
                        tables[l].rows[i].text_id \o <<"=">> \o tables[l].rows[i].raw_text
                            = files[l].lines[i]

\* a rebuild over all three languages completed
C9_Witness ==
    /\ pc = "refresh_done" /\ exc = NoExc
    /\ Len(used_text) = 3
    /\ \A l \in Enabled : Len(tables[l].rows) >= 1
    /\ Len(tables["en"].rows) = 2

\* C10: a full_refresh that fails for a missing source file leaves the
\* entries of every enabled table as they were before the call.
C10_FailedRefreshKeepsTables ==
    [][(pc = "idle" /\ pc' = "refresh_done" /\ exc' # NoExc) =>
          \A l \in Enabled : tables'[l].rows = tables[l].rows]_vars

\* every enabled table holds exactly the lines of its source file, the
\* state a completed rebuild of these files leaves
InSync ==
    \A l \in Enabled :
        /\ files[l].exists /\ tables[l].exists
        /\ Len(tables[l].rows) = Len(files[l].lines)
        /\ \A i \in 1..Len(tables[l].rows) :
              tables[l].rows[i].text_id \o <<"=">> \o tables[l].rows[i].raw_text
                  = files[l].lines[i]

\* C12: a full_refresh of source files that the tables were already
\* rebuilt from does not raise and leaves every enabled table with the
\* same entries, so a search with any fixed arguments returns the same
\* ordered keys and the same payload after it as before it.
C12_RebuildIdempotent ==
    [][(pc = "idle" /\ pc' = "refresh_done" /\ InSync) =>
          /\ exc' = NoExc
          /\ \A l \in Enabled : tables'[l] = tables[l]
          /\ \A keyword \in Keywords, limit \in 0..MaxLimit, use_db \in UseDbChoices,
                display_rsui \in BOOLEAN, max_length \in MaxLengthChoices,
                fuzzy_search \in BOOLEAN :
                \E before \in {SearchCall(tables, used_text, keyword, limit, use_db,
                                          display_rsui, max_length, fuzzy_search)} :
                    \E after \in {SearchCall(tables', used_text, keyword, limit, use_db,
                                             display_rsui, max_length, fuzzy_search)} :
                        /\ after.ids = before.ids
                        /\ after.payload = before.payload
                        /\ after.exc = before.exc]_vars

\* a rebuild of two languages completed over tables that already held the
\* three lines of the en file and the three lines of the cn file
C12_Witness ==
    /\ pc = "refresh_done" /\ exc = NoExc
    /\ InSync
    /\ Len(used_text) = 2
    /\ Len(tables["en"].rows) = 3
    /\ Len(tables["cn"].rows) = 3

\* C18: after a rebuild every line `<key>=<text>` of a source file is one
\* entry whose key is the text before the first '=' and whose raw text is
\* exactly <text>, without the line terminator.
C18_RawTextWithoutTerminator ==
    (pc = "refresh_done" /\ exc = NoExc) =>
        \A l \in Enabled :
            /\ Len(tables[l].rows) = Len(files[l].lines)
            /\ \A i \in 1..Len(tables[l].rows) :
                  tables[l].rows[i].text_id \o <<"=">> \o tables[l].rows[i].raw_text
                      \o <<NL>> = files[l].lines[i]

\* C19: every table holds at most one entry per key, whatever rebuilds
\* have run and also when a source file has a key on more than one line.
C19_OneEntryPerKey ==
    \A l \in Langs :
        \A i, j \in 1..Len(tables[l].rows) :
            i # j => tables[l].rows[i].text_id # tables[l].rows[j].text_id

\* ------------------------------------------------------------------------
\* Properties of get_full_text
\* ------------------------------------------------------------------------

\* C13: get_full_text(key) returns, for each enabled language whose table
\* holds the key, the HTML-escaped raw text of that entry; a language
\* whose table does not hold the key is left out of the mapping and the
\* call does not fail.
C13_FullTextOmitsUnknown ==
    (pc = "full_text_done" /\ \A l \in Enabled : tables[l].exists) =>
        /\ exc = NoExc
        /\ DOMAIN full_text =
              {l \in Enabled : \E r \in Range(tables[l].rows) : r.text_id = text_id}
        /\ \A l \in DOMAIN full_text :
              \E r \in Range(tables[l].rows) :
                  r.text_id = text_id /\ full_text[l] = Escape(r.raw_text)

\* ------------------------------------------------------------------------
\* Properties of the tokenizer
\* ------------------------------------------------------------------------

\* the pieces jieba.cut produced for the stored text of a row
Pieces(row) == Range(JiebaCut(row.raw_text))

\* a piece made of letters, digits and Chinese characters only, which the
\* tokenizer gives back as one piece when it is cut alone
WordPiece(p) ==
    /\ p # <<>>
    /\ \A i \in 1..Len(p) : IsAlnum(p[i])
    /\ JiebaCut(p) = <<p>>

\* the limit of the call cuts nothing: it is positive, and the
\* token-matching rows of the requested tables and the collected keys fit it
NonTruncating ==
    /\ args.limit >= 1
    /\ Cardinality({r \in RequestedRows : TokenMatch(r, args.keyword)}) <= args.limit
    /\ Cardinality(ResultKeys) <= args.limit

\* a search without length filter on rebuilt tables
PlainSearch ==
    /\ pc = "search_done"
    /\ args.max_length = NoLength
    /\ \A l \in Enabled : tables[l].exists

HlDone == pc = "highlight_done"

\* the display budget of the call, the escaped text, whether it is cut
Budget == IF ContainsChinese(h_text) THEN DisplayLength \div 2 ELSE DisplayLength
Escaped == Escape(h_text)
Truncates == Len(Escaped) >= Budget

\* the keyword occurs in the text argument, whatever the case
Occurs == \E i \in 1..Len(h_text) : MatchAt(h_text, h_keyword, i)

\* the positions of the markers in the snippet
Opens == {i \in 1..Len(snippet) : TagAt(snippet, OpenTag, i)}
Closes == {i \in 1..Len(snippet) : TagAt(snippet, CloseTag, i)}

\* the position in the snippet without its markers of the character at i
Unmarked(i) ==
    i - Len(OpenTag) * Cardinality({o \in Opens : o < i})
      - Len(CloseTag) * Cardinality({c \in Closes : c < i})

\* the occurrences of the keyword in the text argument, whatever the case
\* (the keywords drawn here cannot overlap themselves), and where the
\* escaped text holds the character at position i of the text
RawOccurrences == {i \in 1..Len(h_text) : MatchAt(h_text, h_keyword, i)}
EscapedAt(i) == Len(Escape(SubSeq(h_text, 1, i - 1))) + 1
EscapedOccurrence(i) == Escape(SubSeq(h_text, i, i + Len(h_keyword) - 1))

\* C14: for a text whose escaped length is under the budget and a keyword
\* that occurs in it, the snippet without its markers is the escaped text
\* exactly, and its <b>...</b> spans are exactly the occurrences of the
\* keyword in the text (whatever the case), each one escaped.
C14_UnderBudgetRoundTrip ==
    (HlDone /\ ~Truncates /\ Occurs) =>
        /\ RemoveTag(RemoveTag(snippet, OpenTag), CloseTag) = Escaped
        /\ \A i \in RawOccurrences :
              \E o \in Opens :
                  /\ Unmarked(o + Len(OpenTag)) = EscapedAt(i)
                  /\ o + Len(OpenTag) + Len(EscapedOccurrence(i)) \in Closes
                  /\ SubSeq(snippet, o + Len(OpenTag),
                            o + Len(OpenTag) + Len(EscapedOccurrence(i)) - 1)
                        = EscapedOccurrence(i)
        /\ \A o \in Opens :
              \E i \in RawOccurrences : Unmarked(o + Len(OpenTag)) = EscapedAt(i)
        /\ Cardinality(Opens) = Cardinality(Closes)

\* C15: whenever highlight truncates, the returned string is no longer
\* than the budget plus the ellipsis.
C15_TruncatedLengthBound ==
    (HlDone /\ Truncates) => Len(snippet) <= Budget + Len(Ellipsis)

\* C15, amended: whenever highlight truncates, the returned string is no
\* longer than the budget plus the ellipsis plus one <b> and one </b>
\* marker, and without its markers no longer than the budget plus the
\* ellipsis.
C15_TruncatedLengthWithMarkers ==
    (HlDone /\ Truncates) =>
        /\ Len(snippet) <= Budget + Len(Ellipsis) + Len(OpenTag) + Len(CloseTag)
        /\ Len(RemoveTag(RemoveTag(snippet, OpenTag), CloseTag))
              <= Budget + Len(Ellipsis)

\* a truncated snippet with an emphasized slice that fills the budget: it
\* is ten characters longer than the budget
C15_Witness ==
    /\ HlDone /\ Truncates
    /\ Cardinality(Opens) = 1 /\ Cardinality(Closes) = 1
    /\ Len(snippet) = Budget + Len(Ellipsis) + Len(OpenTag) + Len(CloseTag)

\* the first occurrence of the keyword in the text argument, the escaped
\* text before it and the escaped text from it on
FirstOccurrence == CHOOSE i \in 1..Len(h_text) :
    MatchAt(h_text, h_keyword, i) /\ \A j \in 1..(i-1) : ~MatchAt(h_text, h_keyword, j)
Prefix == Escape(SubSeq(h_text, 1, FirstOccurrence - 1))
FromOccurrence == Escape(SubSeq(h_text, FirstOccurrence, Len(h_text)))

\* C16: when highlight truncates a text in which the keyword occurs and
\* the prefix before the first occurrence does not exceed the budget, the
\* snippet is the prefix, a complete <b>...</b> span holding a non-empty
\* part of the text from the occurrence on, and the ellipsis.
C16_EmphasisKeptUnderTruncation ==
    (HlDone /\ Truncates /\ Occurs /\ Len(Prefix) <= Budget) =>
        \E n \in 1..Len(FromOccurrence) :
            snippet = Prefix \o OpenTag \o SubSeq(FromOccurrence, 1, n)
                         \o CloseTag \o Ellipsis

\* C17: every '<' and every '>' of the returned snippet belongs to a
\* complete <b> or </b> marker.
C17_OnlyCompleteMarkers ==
    HlDone =>
        \A i \in 1..Len(snippet) :
            /\ snippet[i] = "<" => (i \in Opens \/ i \in Closes)
            /\ snippet[i] = ">" =>
                  (i - Len(OpenTag) + 1 \in Opens \/ i - Len(CloseTag) + 1 \in Closes)

\* ------------------------------------------------------------------------
\* Properties of a search beside a rebuild
\* ------------------------------------------------------------------------

\* C11: every table read of a search that runs beside a rebuild (exact
\* query, fuzzy scan, snippet fetch) sees a complete generation of that
\* table, the one before the rebuild's transaction or the one it commits,
\* never the emptied table or a partly inserted one.
C11_ReadsSeeWholeGenerations ==
    seen # NoRead => seen.rows \in gens[seen.db]

\* a snippet fetch read a table while the rebuild's transaction on that
\* table had deleted the old rows and inserted some of the new ones
C11_Witness ==
    /\ seen.kind = "fetch" /\ seen.in_txn
    /\ txn.open /\ txn.key = seen.db
    /\ rpc.at = "insert" /\ rpc.n >= 1
    /\ seen.rows # <<>> /\ seen.rows # txn.rows
    /\ seen.rows # TextList(files[seen.db].lines)
    /\ seen.rows \in gens[seen.db]
    /\ ids # <<>>

\* ------------------------------------------------------------------------
\* Properties of the length filter under fuzzy search
\* ------------------------------------------------------------------------

\* a fuzzy-enabled search with max_length = m has returned
FuzzyBounded == SearchReturned /\ args.fuzzy_search /\ args.max_length # NoLength

\* the entry is one the fuzzy scan emits for the keyword
FuzzyMatch(row, keyword) == Similarity(keyword, row.raw_text) >= Threshold

\* C22: for search(k, max_raw_length=m, fuzzy=true) every returned key has,
\* in a requested table, an entry of raw text length < m that the exact
\* query or the fuzzy scan found; no key is returned for an entry of
\* length >= m alone.
C22_MaxLengthBoundsFuzzy ==
    FuzzyBounded =>
        \A i \in 1..Len(ids) :
            \E r \in RequestedRows :
                /\ r.text_id = ids[i]
                /\ Len(r.raw_text) < args.max_length[1]
                /\ (TokenMatch(r, args.keyword) \/ FuzzyMatch(r, args.keyword))

\* C22, amended: the length filter bounds the exact query only.  Every key
\* the exact query found has a token-matching entry of raw text length < m
\* in a requested table; every other returned key has an entry the fuzzy
\* scan emits, of any length.
C22_MaxLengthBoundsExactOnly ==
    FuzzyBounded =>
        /\ \A k \in ExactKeys :
              \E r \in RequestedRows :
                  /\ r.text_id = k
                  /\ TokenMatch(r, args.keyword)
                  /\ Len(r.raw_text) < args.max_length[1]
        /\ \A i \in 1..Len(ids) :
              \/ ids[i] \in ExactKeys
              \/ \E r \in RequestedRows :
                    r.text_id = ids[i] /\ FuzzyMatch(r, args.keyword)

\* a token-matching entry at or over the bound is kept out of the exact
\* result and its key is returned by the fuzzy scan all the same, while
\* another key is returned by the exact query
C22_Witness ==
    /\ FuzzyBounded
    /\ ExactKeys # {}
    /\ \E r \in RequestedRows :
          /\ TokenMatch(r, args.keyword)
          /\ Len(r.raw_text) >= args.max_length[1]
          /\ r.text_id \in Range(ids) \ ExactKeys
          /\ \A o \in RequestedRows :
                o.text_id = r.text_id => Len(o.raw_text) >= args.max_length[1]

\* ------------------------------------------------------------------------
\* The window: DictionaryApp and RefreshLocalThread.  The GUI thread runs
\* one handler at a time; QApplication.processEvents() in on_search and
\* the exec() of the error dialog run further handlers inside a handler.
\* search and full_refresh are taken as one step each.
\* ------------------------------------------------------------------------

\* search's default limit
DefaultLimit == 100

\* the connections of returnPressed to on_search that are told apart
MaxConnections == 2

\* the emissions of returnPressed or clicked under way at a time
MaxNested == 2

\* the texts typed into the search box; <<>> is the empty box
GuiKeywords == {KwHello, KwDash}

\* a handler under way; `text` is the search_text of an on_search call,
\* `before` the result set it found when it started
NoBefore == [results |-> EmptyMap, list |-> <<>>]
Frame(at, left, text, before) ==
    [at |-> at, left |-> left, text |-> text, before |-> before]

Top == gui[Len(gui)]
Pop == SubSeq(gui, 1, Len(gui) - 1)

\* the event loop that runs delivers user input to the window: the main
\* loop or processEvents(), not the loop of the modal error dialog
InputReady == IF gui = <<>> THEN TRUE ELSE Top.at = "events"

\* the event loop that runs delivers queued signals
QueueReady ==
    IF gui = <<>> THEN TRUE
    ELSE Top.at \in {"events", "search_dialog", "refresh_dialog"}

Emissions == Cardinality({i \in 1..Len(gui) : gui[i].at = "emit"})

\* enable_buttons(status): the buttons, and returnPressed.connect(on_search)
\* once more for True; connect(None) for False adds no slot and removes none
EnableButtons(status) ==
    /\ buttons' = status
    /\ connections' = IF status THEN Min(connections + 1, MaxConnections)
                      ELSE connections

\* display_search_results after results_list.clear(): one item per key,
\* up to the first key for which results[text_id], text_data['cn'] or
\* text_data['en'] raises KeyError; that item is in the list already,
\* without widget and data
display_search_results(ranked_ids, results) ==
    LET bad == {i \in 1..Len(ranked_ids) :
                   \/ ranked_ids[i] \notin DOMAIN results
                   \/ ~({"cn", "en"} \subseteq DOMAIN results[ranked_ids[i]])}
        n   == IF bad = {} THEN Len(ranked_ids)
               ELSE CHOOSE i \in bad : \A j \in bad : i <= j
    IN  [list |-> [i \in 1..n |->
                      IF i \in bad THEN [text_id |-> <<>>, cn |-> <<>>, en |-> <<>>]
                      ELSE [text_id |-> ranked_ids[i],
                            cn      |-> results[ranked_ids[i]]["cn"],
                            en      |-> results[ranked_ids[i]]["en"]]],
         exc  |-> IF bad = {} THEN NoExc ELSE <<"KeyError">>]

\* perform_search: search(keyword=text, fuzzy_search=self.fuzzy_search)
perform_search(text) ==
    SearchCall(tables, used_text, text, DefaultLimit, <<"cn", "en">>, FALSE,
               NoLength, fuzzy_box)

\* the window of an installation: the source files are in place or cn.ini
\* is missing, the tables are absent or hold an earlier rebuild
InitGui ==
    /\ used_text = UsedTextOf(FALSE)
    /\ files \in [Langs -> {Missing} \cup {FileOf(f) : f \in UNION {FileChoices[l] : l \in Langs}}]
    /\ files["en"].exists /\ files["en"].lines \in FileChoices["en"]
    /\ files["cn"].exists => files["cn"].lines \in FileChoices["cn"]
    /\ files["rsui"] = Missing
    /\ tables \in [Langs -> {NoTable} \cup {TableOf(TextList(f)) : f \in UNION {FileChoices[l] : l \in Langs}}]
    /\ tables["rsui"] = NoTable
    /\ \/ tables["en"] = NoTable /\ tables["cn"] = NoTable
       \/ /\ \E f \in FileChoices["en"] : tables["en"] = TableOf(TextList(f))
          /\ \E f \in FileChoices["cn"] : tables["cn"] = TableOf(TextList(f))
    /\ pc = "idle"
    /\ args = NoArgs
    /\ exact = <<>>
    /\ result = <<>>
    /\ result_dict = <<>>
    /\ ids = <<>>
    /\ payload = EmptyMap
    /\ exc = NoExc
    /\ queries = NoQueries
    /\ text_id = <<>>
    /\ full_text = EmptyMap
    /\ h_text = <<>>
    /\ h_keyword = <<>>
    /\ snippet = <<>>
    /\ rpc = RIdle
    /\ txn = NoTxn
    /\ seen = NoRead
    /\ gens = [l \in Langs |-> {}]
    /\ InitWindow

\* the variables of DictionaryManager's calls, which the window's steps
\* leave alone
call_vars == <<used_text, files, pc, args, exact, result, result_dict, ids,
               payload, exc, queries, ft_vars, hl_vars, conc_vars>>

\* the user types a text, sets the checkbox and presses Enter in the
\* search box: returnPressed calls every slot connected to it
PressEnter ==
    /\ InputReady
    /\ Emissions < MaxNested
    /\ \E text \in GuiKeywords \cup {<<>>}, checked \in BOOLEAN :
          /\ search_input' = text
          /\ fuzzy_box' = checked
    /\ gui' = Append(gui, Frame("emit", connections, <<>>, NoBefore))
    /\ UNCHANGED <<call_vars, tables, buttons, connections, search_results,
                   results_list, detail_display, threads, queued, notified>>

\* the user types a text, sets the checkbox and clicks the search button
ClickSearch ==
    /\ InputReady
    /\ buttons
    /\ Emissions < MaxNested
    /\ \E text \in GuiKeywords \cup {<<>>}, checked \in BOOLEAN :
          /\ search_input' = text
          /\ fuzzy_box' = checked
    /\ gui' = Append(gui, Frame("emit", 1, <<>>, NoBefore))
    /\ UNCHANGED <<call_vars, tables, buttons, connections, search_results,
                   results_list, detail_display, threads, queued, notified>>

\* on_search is called, up to QApplication.processEvents(); with an empty
\* box it returns through `finally`
OnSearch ==
    /\ gui # <<>> /\ Top.at = "emit" /\ Top.left > 0
    /\ IF search_input = <<>>
       THEN /\ EnableButtons(TRUE)
            /\ gui' = Append(Pop, [Top EXCEPT !.left = @ - 1])
            /\ UNCHANGED detail_display
       ELSE /\ EnableButtons(FALSE)
            /\ detail_display' = IF fuzzy_box THEN "fuzzy_searching" ELSE "searching"
            /\ gui' = Append(Append(Pop, [Top EXCEPT !.left = @ - 1]),
                             Frame("events", 0, search_input,
                                   [results |-> search_results, list |-> results_list]))
    /\ UNCHANGED <<call_vars, tables, search_input, fuzzy_box, search_results,
                   results_list, threads, queued, notified>>

\* every connected slot has returned
EmitDone ==
    /\ gui # <<>> /\ Top.at = "emit" /\ Top.left = 0
    /\ gui' = Pop
    /\ UNCHANGED <<call_vars, tables, search_input, fuzzy_box, buttons, connections,
                   search_results, results_list, detail_display, threads, queued,
                   notified>>

\* on_search from perform_search on, processEvents() having handled what
\* was pending: the results are stored and shown; an exception sets the
\* error text and opens the error dialog
OnSearchRun ==
    /\ gui # <<>> /\ Top.at = "events"
    /\ queued = <<>>
    /\ \E r \in {perform_search(Top.text)} :
          IF r.exc # NoExc
          THEN /\ detail_display' = "search_error"
               /\ gui' = Append(Pop, [Top EXCEPT !.at = "search_dialog"])
               /\ UNCHANGED <<search_results, results_list, buttons, connections>>
          ELSE \E shown \in {display_search_results(r.ids, r.payload)} :
                  /\ search_results' = r.payload
                  /\ results_list' = shown.list
                  /\ IF shown.exc # NoExc
                     THEN /\ detail_display' = "search_error"
                          /\ gui' = Append(Pop, [Top EXCEPT !.at = "search_dialog"])
                          /\ UNCHANGED <<buttons, connections>>
                     ELSE /\ detail_display' = IF Len(r.ids) > 0 THEN "found"
                                               ELSE "not_found"
                          /\ gui' = Pop
                          /\ EnableButtons(TRUE)
    /\ UNCHANGED <<call_vars, tables, search_input, fuzzy_box, threads, queued,
                   notified>>

\* the user closes the error dialog: show_error_dialog returns, and
\* on_search (finally) or on_refresh_error enables the buttons
DismissDialog ==
    /\ gui # <<>> /\ Top.at \in {"search_dialog", "refresh_dialog"}
    /\ gui' = Pop
    /\ EnableButtons(TRUE)
    /\ UNCHANGED <<call_vars, tables, search_input, fuzzy_box, search_results,
                   results_list, detail_display, threads, queued, notified>>

\* a thread slot of the model is free: no thread and no signal of it left
Free(id) == threads[id] = "none" /\ \A k \in 1..Len(queued) : queued[k].id # id

\* the user clicks the refresh button: refresh_local
RefreshLocal ==
    /\ InputReady
    /\ buttons
    /\ \E id \in ThreadIds :
          /\ Free(id) /\ \A o \in ThreadIds : Free(o) => id <= o
          /\ threads' = [threads EXCEPT ![id] = "started"]
          /\ notified' = [notified EXCEPT ![id] = NoNotes]
    /\ EnableButtons(FALSE)
    /\ detail_display' = "refreshing"
    /\ UNCHANGED <<call_vars, tables, search_input, fuzzy_box, search_results,
                   results_list, gui, queued>>

\* RefreshLocalThread.run: full_refresh, then finished.emit() or
\* error.emit(e); the signal is queued for the GUI thread
ThreadRun ==
    /\ \E id \in ThreadIds :
          /\ threads[id] = "started"
          /\ \E r \in {RefreshDb(CreateDb(tables, used_text), files, used_text, 1)} :
                /\ tables' = r[1]
                /\ queued' = Append(queued, [sig |-> IF r[2] = NoExc THEN "finished"
                                                      ELSE "error",
                                             id  |-> id])
          /\ threads' = [threads EXCEPT ![id] = "ran"]
    /\ UNCHANGED <<call_vars, search_input, fuzzy_box, buttons, connections,
                   search_results, results_list, detail_display, gui, notified>>

\* run has returned: QThread emits its own finished(), the signal that the
\* class attribute `finished = Signal()` names
ThreadFinished ==
    /\ \E id \in ThreadIds :
          /\ threads[id] = "ran"
          /\ queued' = Append(queued, [sig |-> "finished", id |-> id])
          /\ threads' = [threads EXCEPT ![id] = "none"]
    /\ UNCHANGED <<call_vars, tables, search_input, fuzzy_box, buttons, connections,
                   search_results, results_list, detail_display, gui, notified>>

\* on_refresh_finished
OnRefreshFinished ==
    /\ QueueReady
    /\ queued # <<>> /\ Head(queued).sig = "finished"
    /\ queued' = Tail(queued)
    /\ notified' = [notified EXCEPT ![Head(queued).id].finished = @ + 1]
    /\ detail_display' = "refreshed"
    /\ EnableButtons(TRUE)
    /\ UNCHANGED <<call_vars, tables, search_input, fuzzy_box, search_results,
                   results_list, gui, threads>>

\* on_refresh_error, up to the exec() of the error dialog
OnRefreshError ==
    /\ QueueReady
    /\ queued # <<>> /\ Head(queued).sig = "error"
    /\ queued' = Tail(queued)
    /\ notified' = [notified EXCEPT ![Head(queued).id].error = @ + 1]
    /\ gui' = Append(gui, Frame("refresh_dialog", 0, <<>>, NoBefore))
    /\ UNCHANGED <<call_vars, tables, search_input, fuzzy_box, buttons, connections,
                   search_results, results_list, detail_display, threads>>

NextGui ==
    \/ PressEnter
    \/ ClickSearch
    \/ OnSearch
    \/ EmitDone
    \/ OnSearchRun
    \/ DismissDialog
    \/ RefreshLocal
    \/ ThreadRun
    \/ ThreadFinished
    \/ OnRefreshFinished
    \/ OnRefreshError

SpecGui == InitGui /\ [][NextGui]_vars

\* ------------------------------------------------------------------------
\* Properties of the payload and of the window
\* ------------------------------------------------------------------------

\* C25: for every key of the sequence search returns, the payload has an
\* entry of that key with a snippet for 'cn' and one for 'en'.
C25_PayloadHasBothLanguages ==
    SearchReturned =>
        \A i \in 1..Len(ids) :
            /\ ids[i] \in DOMAIN payload
            /\ {"cn", "en"} \subseteq DOMAIN payload[ids[i]]

\* C21: while the error dialog of a failed on_search is shown,
\* self.search_results and the items of the result list are what they were
\* when that on_search started.
C21_FailedSearchKeepsResults ==
    \A i \in 1..Len(gui) :
        gui[i].at = "search_dialog" =>
            /\ search_results = gui[i].before.results
            /\ results_list = gui[i].before.list

\* a rebuild is in progress: refresh_local has started its thread and
\* neither on_refresh_finished nor on_refresh_error has run for it
InProgress(id) == ~Free(id) /\ notified[id] = NoNotes

\* C23: while a rebuild is in progress no step calls on_search or
\* refresh_local.
C23_NoCallsDuringRebuild ==
    [][(\E id \in ThreadIds : InProgress(id)) => ~(OnSearch \/ RefreshLocal)]_vars

\* C24: no rebuild is notified by both on_refresh_error and
\* on_refresh_finished.
C24_NeverBothNotifications ==
    \A id \in ThreadIds : ~(notified[id].error > 0 /\ notified[id].finished > 0)

====
